---- MODULE Spec2Model ----
(***************************************************************************)
(* A model of the compensatory tracking / PVT engine (class CompTrack of   *)
(* CompTrack.py) and of the session driver (experiment.py).                *)
(*                                                                         *)
(* Time is counted in clock ticks, TimeScale ticks to the second.          *)
(* Positions and forces are fixed-point numbers, PosScale units to the     *)
(* pixel; user input (SDL xrel) is a whole number of pixels.               *)
(***************************************************************************)
EXTENDS Integers, Sequences, FiniteSets, TLC

\* ------------------------------------------------------------------------
\* Bounds of the model
\* ------------------------------------------------------------------------
MaxDuration == 3
MaxITI == 2
TimeScale == 2
PosScale == 2
MaxDt == 2
MaxJitter == 1
ScreenX == 4
CursorPx == 2
BigStep == 9
MaxMotions == 2
ModifierCount == 3

VARIABLES
    exp_duration,             \* session_params['exp_duration'], seconds
    PVT_ITI,                  \* session_params['PVT_ITI'], <<lo, hi>>, seconds
    PVT_timestamps,           \* session_params['PVT_timestamps']: [set, val]
    reset_target_after_poll,  \* session_params['reset_target_after_poll']
    poll_while_moving,        \* session_params['poll_while_moving']
    poll_at_fixation,         \* session_params['poll_at_fixation']
    gen_pc,                   \* position inside generate_PVT_timestamps
    timestamps,               \* local array of generate_PVT_timestamps
    timestamp,                \* local scalar of the padding loop
    err,                      \* the exception that ended the run, or "none"
    setup_pc,                 \* position of experiment.py's setup()
    now,                      \* the clock as refresh last read it
    init_time,                \* CompTrack.__init_time
    x_pos,                    \* current_state['x_pos'], fixed point
    do_PVT,                   \* current_state['do_PVT']
    PVT_start,                \* current_state['PVT_start'] (NoStart = None)
    PVT_event_count,          \* current_state['PVT_event_count']
    current_modifier,         \* current_state['current_modifier']
    event_queue,              \* the event batch handed to the last refresh
    event_data,               \* the frame record of the last refresh
    db_last,                  \* last row inserted into comp_track_data
    db_outcomes,              \* rows of comp_track_data with PVT_RT # 'NA'
    rendered,                 \* what the last __render call drew
    calls,                    \* collaborator calls of the last refresh, in order
    last_entry                \* outcome of a get_last_entry call made since
                              \* the last refresh

vars == <<exp_duration, PVT_ITI, PVT_timestamps, reset_target_after_poll,
          poll_while_moving, poll_at_fixation,
          gen_pc, timestamps, timestamp, err, setup_pc, now, init_time,
          x_pos, do_PVT, PVT_start, PVT_event_count, current_modifier,
          event_queue, event_data, db_last, db_outcomes, rendered, calls,
          last_entry>>

params == <<exp_duration, PVT_ITI, reset_target_after_poll,
            poll_while_moving, poll_at_fixation>>
genvars == <<gen_pc, timestamps, timestamp>>
trackvars == <<now, x_pos, do_PVT, PVT_start, PVT_event_count,
               current_modifier, event_queue, event_data, db_last,
               db_outcomes, rendered, calls, last_entry>>

\* ------------------------------------------------------------------------
\* Helpers
\* ------------------------------------------------------------------------
RECURSIVE SumSeq(_)
\* np.sum of an integer array
SumSeq(s) == IF s = <<>> THEN 0 ELSE s[1] + SumSeq(Tail(s))

\* np.cumsum of an integer array
CumSum(s) == [i \in 1..Len(s) |-> SumSeq(SubSeq(s, 1, i))]

\* math.floor(np.mean(PVT_ITI)) for non-negative bounds
MeanFloor(iti) == (iti[1] + iti[2]) \div 2

\* Python int(): truncation toward zero of a fixed-point value
IntTrunc(v) == IF v >= 0 THEN v \div PosScale ELSE -((-v) \div PosScale)

\* One second of the response window, in clock ticks
OneSecond == 1 * TimeScale

\* None, for PVT_start
NoStart == 0 - 1

\* x_bounds: [int(0.5 * cursor), int(screen_x - 0.5 * cursor)], in pixels
x_bounds == <<CursorPx \div 2, (2 * ScreenX - CursorPx) \div 2>>

\* P.screen_c[0], fixed point
screen_c == (ScreenX * PosScale) \div 2

\* event_data_template (PVT_RT 'NA' is kind "NA")
NA == [kind |-> "NA", rt |-> 0]
TIMEOUT == [kind |-> "TIMEOUT", rt |-> 0]
NumRT(r) == [kind |-> "RT", rt |-> r]
event_data_template ==
    [timestamp |-> 0, buffeting_force |-> 0, total_force |-> 0,
     user_input |-> 0, PVT_RT |-> NA]

NoRow == [exists |-> FALSE, target_position |-> 0, displacement |-> 0,
          user_input |-> 0, total_force |-> 0, PVT_event |-> FALSE,
          PVT_RT |-> NA]

\* No get_last_entry call has been made yet
NoEntry == [status |-> "none", value |-> 0]

\* ------------------------------------------------------------------------
\* Initial state: the CompTrack object as __init__ leaves it, with the
\* session parameters the caller has set.
\* ------------------------------------------------------------------------
\* current_state, event_data and the collaborators as __init__ leaves them
CompTrack_init ==
    /\ PVT_timestamps = [set |-> FALSE, val |-> <<>>]
    /\ gen_pc = "idle"
    /\ timestamps = <<>>
    /\ timestamp = 0
    /\ err = "none"
    /\ setup_pc = "start"
    /\ init_time = 7          \* now() at construction: some non-zero reading
    /\ now = init_time
    /\ x_pos = screen_c
    /\ do_PVT = FALSE
    /\ PVT_start = NoStart
    /\ PVT_event_count = 0
    /\ current_modifier = 0
    /\ event_queue = [space |-> FALSE, motion |-> <<>>]
    /\ event_data = event_data_template
    /\ db_last = NoRow
    /\ db_outcomes = 0
    /\ rendered = [probe |-> FALSE, pos |-> screen_c]
    /\ calls = <<>>
    /\ last_entry = NoEntry

\* The session parameters: exp_duration, PVT_ITI and reset_target_after_poll
\* as the caller has set them, the polling policy at its defaults (lines
\* 97-98).
Init ==
    /\ exp_duration \in 0..MaxDuration
    /\ PVT_ITI \in (1..MaxITI) \X (0..MaxITI)
    /\ reset_target_after_poll \in BOOLEAN
    /\ poll_while_moving = TRUE
    /\ poll_at_fixation = FALSE
    /\ CompTrack_init

\* ------------------------------------------------------------------------
\* generate_PVT_timestamps
\* ------------------------------------------------------------------------
\* Lines 153-160: the ballpark event count and the initial random draw.
\* A zero mean raises ZeroDivisionError; an empty range makes randint raise
\* ValueError.
GenSample ==
    /\ gen_pc = "idle"
    /\ err = "none"
    /\ setup_pc = "start"
    /\ UNCHANGED <<params, PVT_timestamps, timestamp, setup_pc, trackvars,
                   init_time>>
    /\ IF MeanFloor(PVT_ITI) = 0
       THEN /\ err' = "ZeroDivisionError"
            /\ gen_pc' = "raised"
            /\ UNCHANGED timestamps
       ELSE IF PVT_ITI[1] >= PVT_ITI[2] + 1
       THEN /\ err' = "ValueError"
            /\ gen_pc' = "raised"
            /\ UNCHANGED timestamps
       ELSE LET event_count == exp_duration \div MeanFloor(PVT_ITI)
            IN /\ timestamps' \in [1..event_count -> PVT_ITI[1]..PVT_ITI[2]]
               /\ gen_pc' = "sampled"
               /\ UNCHANGED err

\* Lines 165 and 174: which of the two adjusting loops is entered.
GenBranch ==
    /\ gen_pc = "sampled"
    /\ gen_pc' = IF SumSeq(timestamps) < exp_duration THEN "pad"
                 ELSE IF SumSeq(timestamps) > exp_duration THEN "trim"
                 ELSE "cumsum"
    /\ UNCHANGED <<params, PVT_timestamps, timestamps, timestamp, err,
                   setup_pc, trackvars, init_time>>

\* Line 167: the test of the padding loop.
GenPadTest ==
    /\ gen_pc = "pad"
    /\ gen_pc' = IF SumSeq(timestamps) < exp_duration THEN "pad_body"
                 ELSE "cumsum"
    /\ UNCHANGED <<params, PVT_timestamps, timestamps, timestamp, err,
                   setup_pc, trackvars, init_time>>

\* Lines 168-172: the body of the padding loop. np.append returns a new
\* array, which the code drops, so timestamps is left as it was.
GenPadBody ==
    /\ gen_pc = "pad_body"
    /\ timestamp' \in PVT_ITI[1]..PVT_ITI[2]
    /\ gen_pc' = "pad"
    /\ UNCHANGED <<params, PVT_timestamps, timestamps, err, setup_pc,
                   trackvars, init_time>>

\* Lines 176-177: the trimming loop, whose condition is sum < exp_duration.
GenTrim ==
    /\ gen_pc = "trim"
    /\ IF SumSeq(timestamps) < exp_duration
       THEN /\ timestamps' = SubSeq(timestamps, 1, Len(timestamps) - 1)
            /\ UNCHANGED gen_pc
       ELSE /\ gen_pc' = "cumsum"
            /\ UNCHANGED timestamps
    /\ UNCHANGED <<params, PVT_timestamps, timestamp, err, setup_pc,
                   trackvars, init_time>>

\* Line 181: the schedule is installed.
GenInstall ==
    /\ gen_pc = "cumsum"
    /\ PVT_timestamps' = [set |-> TRUE, val |-> CumSum(timestamps)]
    /\ gen_pc' = "done"
    /\ UNCHANGED <<params, timestamps, timestamp, err, setup_pc, trackvars,
                   init_time>>

generate_PVT_timestamps ==
    \/ GenSample
    \/ GenBranch
    \/ GenPadTest
    \/ GenPadBody
    \/ GenTrim
    \/ GenInstall

GenSpec == Init /\ [][generate_PVT_timestamps]_vars

\* ------------------------------------------------------------------------
\* The position property (lines 395-409)
\* ------------------------------------------------------------------------
\* Mutant of position: only the lower bound is enforced.
position_NoUpperPin(val) ==
    IF IntTrunc(val) < x_bounds[1] THEN x_bounds[1] * PosScale ELSE val

\* The setter: a value whose integer part is outside range(*x_bounds) is
\* pinned to the nearer bound; val is fixed point, the bounds are pixels.
position(val) ==
    IF IntTrunc(val) \notin x_bounds[1]..(x_bounds[2] - 1)
    THEN IF val < x_bounds[1] * PosScale
         THEN x_bounds[1] * PosScale
         ELSE x_bounds[2] * PosScale
    ELSE val

\* ------------------------------------------------------------------------
\* refresh (lines 184-220) and the private methods it calls
\* ------------------------------------------------------------------------
\* The values __buffeting_force can return (a bounded sum of sines), fixed
\* point, and the horizontal deltas a pointer-motion event can carry, pixels.
buffeting_force == {0 - 1, 1}
Deltas == {BigStep}

\* An event batch: whether it holds a space key-down, and the xrel values of
\* its pointer-motion events in order.
Batches ==
    [space : BOOLEAN,
     motion : UNION {[1..n -> Deltas] : n \in 0..MaxMotions}]

\* Lines 191-195: the next scheduled onset, 0 - 1 for None.
next_PVT_event(count, sched) ==
    IF count < Len(sched) THEN sched[count + 1] ELSE NoStart

\* Mutant of starts_PVT: the onset time is not consulted.
starts_PVT_Early(probing, count, sched, ts) ==
    /\ ~probing
    /\ next_PVT_event(count, sched) # NoStart

\* Mutant of starts_PVT: the probe-in-progress flag is not consulted.
starts_PVT_IgnoresActive(probing, count, sched, ts) ==
    /\ next_PVT_event(count, sched) # NoStart
    /\ ts >= next_PVT_event(count, sched) * TimeScale

\* Lines 198-200: an Idle -> Probing transition fires on this tick.
starts_PVT(probing, count, sched, ts) ==
    /\ ~probing
    /\ next_PVT_event(count, sched) # NoStart
    /\ ts >= next_PVT_event(count, sched) * TimeScale

\* Mutant of fetch_response: the window never closes.
fetch_response_NoTimeout(rt, batch) ==
    IF batch.space THEN NumRT(rt) ELSE NA

\* Mutant of fetch_response: a key at zero elapsed time is not taken.
fetch_response_MinRT(rt, batch) ==
    IF rt < OneSecond
    THEN IF batch.space /\ rt > 0 THEN NumRT(rt) ELSE NA
    ELSE TIMEOUT

\* Mutant of fetch_response: the window is closed one clock tick late.
fetch_response_LateTimeout(rt, batch) ==
    IF rt <= OneSecond
    THEN IF batch.space THEN NumRT(rt) ELSE NA
    ELSE TIMEOUT

\* Mutant of fetch_response: the key is looked for before the window is tested.
fetch_response_KeyFirst(rt, batch) ==
    IF batch.space THEN NumRT(rt)
    ELSE IF rt < OneSecond THEN NA ELSE TIMEOUT

\* Lines 316-326 of __fetch_response: the outcome written to PVT_RT when a
\* probe is in progress and rt has elapsed since its onset.
fetch_response(rt, batch) ==
    IF rt < OneSecond
    THEN IF batch.space THEN NumRT(rt) ELSE NA
    ELSE TIMEOUT

\* Mutant of terminates_PVT: a timeout does not terminate the probe.
terminates_PVT_OnResponseOnly(outcome) == outcome.kind = "RT"

\* Line 329 of __fetch_response: the probe is terminated once an outcome, a
\* response or a timeout, has been written.
terminates_PVT(outcome) == outcome # NA

\* Mutant of fetch_response_position: the cursor is never re-centred.
fetch_response_position_NoReset(ended, pos) == pos

\* Lines 329-332 of __fetch_response: the position the response step leaves,
\* the screen centre (through the setter) when the probe has been terminated
\* and reset_target_after_poll is set.
fetch_response_position(ended, pos) ==
    IF ended /\ reset_target_after_poll THEN position(screen_c) ELSE pos

\* Lines 289-300 of __additional_buffeting_force: the index after a call.
\* __compute_forces has its call commented out (line 306), so refresh never
\* applies it.
additional_buffeting_force(modifier) ==
    IF modifier = ModifierCount - 1 THEN 0 ELSE modifier + 1

\* Mutant of tracking_permitted: tracking goes on during a probe.
tracking_permitted_Always(probing) == TRUE

\* Line 212: input is captured and the position integrated on a tick whose
\* response step leaves no probe in progress.
tracking_permitted(probing) == ~probing

\* Mutant of capture_input: a batch without motion events yields a pixel.
capture_input_NoDefault(batch) ==
    IF batch.motion = <<>> THEN 1 ELSE batch.motion[Len(batch.motion)]

\* Lines 338-348 of __capture_input: every motion event overwrites
\* user_input, so the last one stands; the template's 0 stands when the
\* batch holds none.
capture_input(batch) ==
    IF batch.motion = <<>> THEN 0 ELSE batch.motion[Len(batch.motion)]

\* Mutant of refresh_calls: the frame is drawn before the row is written.
refresh_calls_RenderFirst == <<"flip", "db.insert">>

\* Lines 217-220: the calls a refresh makes on its collaborators, in order:
\* one db.insert by __write_data, then __render, which ends in flip().
refresh_calls == <<"db.insert", "flip">>

\* Line 365: line_segment_len between the centre and the cursor
displacement(pos) == IF pos >= screen_c THEN pos - screen_c ELSE screen_c - pos

\* Line 73 of experiment.py: the frame loop runs while the session is young.
in_session == (now - init_time) < exp_duration * TimeScale

\* The clock readings a call of now() can return: the clock never runs
\* backwards, and at most MaxJitter ticks pass between two reads of one refresh.
LaterReads(t) == t..(t + MaxJitter)

\* One call of refresh(event_queue). t0, t1 and t2 are the clock readings of
\* line 189, of line 201 (read only when a probe starts) and of line 316 (read
\* only when a probe is in progress).
refresh ==
    /\ gen_pc \in {"idle", "done"}
    /\ err = "none"
    /\ setup_pc = "start"
    /\ in_session
    /\ \E batch \in Batches, f \in buffeting_force, d0 \in 1..MaxDt :
        LET t0 == now + d0
            ts == t0 - init_time
        IN
        /\ event_queue' = batch
        /\ IF ~PVT_timestamps.set
           THEN \* line 192: len(None) raises TypeError
                /\ err' = "TypeError"
                /\ now' = t0
                /\ event_data' = [event_data_template EXCEPT !.timestamp = ts]
                /\ calls' = <<>>
                /\ UNCHANGED <<x_pos, do_PVT, PVT_start, PVT_event_count,
                               db_last, db_outcomes, rendered>>
           ELSE
           LET sched == PVT_timestamps.val
               starts == starts_PVT(do_PVT, PVT_event_count, sched, ts)
               probing1 == do_PVT \/ starts
           IN
           \E t1 \in (IF starts THEN LaterReads(t0) ELSE {t0}) :
           \E t2 \in (IF probing1 THEN LaterReads(t1) ELSE {t1}) :
           LET start1 == IF starts THEN t1 ELSE PVT_start
               count1 == IF starts THEN PVT_event_count + 1 ELSE PVT_event_count
               \* __fetch_response
               rt == t2 - start1
               outcome == IF probing1 THEN fetch_response(rt, batch) ELSE NA
               ended == probing1 /\ terminates_PVT(outcome)
               probing2 == probing1 /\ ~ended
               pos1 == fetch_response_position(ended, x_pos)
               \* __compute_forces, __capture_input and the position update
               input == IF tracking_permitted(probing2)
                        THEN capture_input(batch) ELSE 0
               pos2 == IF tracking_permitted(probing2)
                       THEN position(pos1 + f + input * PosScale)
                       ELSE pos1
           IN
               /\ err' = err
               /\ now' = t2
               /\ PVT_start' = start1
               /\ PVT_event_count' = count1
               /\ do_PVT' = probing2
               /\ x_pos' = pos2
               /\ event_data' = [timestamp |-> ts, buffeting_force |-> f,
                                 total_force |-> f, user_input |-> input,
                                 PVT_RT |-> outcome]
               /\ db_last' = [exists |-> TRUE, target_position |-> pos2,
                              displacement |-> displacement(pos2),
                              user_input |-> input, total_force |-> f,
                              PVT_event |-> (outcome # NA), PVT_RT |-> outcome]
               /\ db_outcomes' = IF outcome # NA THEN db_outcomes + 1
                                 ELSE db_outcomes
               /\ rendered' = [probe |-> probing2, pos |-> pos2]
               /\ calls' = refresh_calls
    /\ last_entry' = NoEntry
    /\ UNCHANGED <<params, PVT_timestamps, genvars, setup_pc, init_time,
                   current_modifier>>

\* ------------------------------------------------------------------------
\* experiment.py: setup() as shipped. Line 47 reads self.metrics['abs_unit'],
\* a key the metrics dictionary does not hold, and lines 58-66 address
\* comp_track.params and comp_track.generate_trials(), which CompTrack does
\* not define; setup() ends in an exception before any schedule is generated
\* and before the frame loop of lines 73-76.
\* ------------------------------------------------------------------------
setup ==
    /\ setup_pc = "start"
    /\ gen_pc = "idle"
    /\ err = "none"
    /\ ~db_last.exists
    /\ setup_pc' = "abort"
    /\ err' = "KeyError"
    /\ UNCHANGED <<params, PVT_timestamps, genvars, trackvars, init_time>>

\* ------------------------------------------------------------------------
\* get_last_entry (lines 381-392)
\* ------------------------------------------------------------------------
\* A column value of a fetched row: a number, or a text such as 'NA' or
\* 'TIMEOUT' in the PVT_RT column.
Number(n) == [kind |-> "number", num |-> n]
Text == [kind |-> "text", num |-> 0]

\* What db.query(..., fetch_all=True) hands back: a list of rows, each a tuple
\* of column values. With no row inserted the list is empty, or its first row
\* holds no value; with rows inserted the first row holds the column's value.
QueryResults ==
    IF db_last.exists
    THEN {<< <<Number(1)>> >>, << <<Text>> >>}
    ELSE {<<>>, << <<>> >>}

\* Mutant of float_of_first: IndexError is not caught.
float_of_first_Uncaught(val) ==
    IF Len(val) = 0 \/ Len(val[1]) = 0
    THEN [status |-> "IndexError", value |-> 0]
    ELSE IF val[1][1].kind = "text"
    THEN [status |-> "ValueError", value |-> 0]
    ELSE [status |-> "returned", value |-> val[1][1].num]

\* Lines 384-392: float(val[0][0]). Either index on an empty sequence raises
\* IndexError, which is caught and answered with 0; float() of a text that is
\* no number raises ValueError, which is not caught.
float_of_first(val) ==
    IF Len(val) = 0 \/ Len(val[1]) = 0
    THEN [status |-> "returned", value |-> 0]
    ELSE IF val[1][1].kind = "text"
    THEN [status |-> "ValueError", value |-> 0]
    ELSE [status |-> "returned", value |-> val[1][1].num]

\* One call of get_last_entry(column): what it returns, or the exception it
\* ends in, is recorded in last_entry.
get_last_entry ==
    /\ gen_pc \in {"idle", "done"}
    /\ err = "none"
    /\ setup_pc = "start"
    /\ \E val \in QueryResults :
         LET out == float_of_first(val)
         IN /\ last_entry' = out
            /\ err' = IF out.status = "returned" THEN err ELSE out.status
    /\ UNCHANGED <<params, PVT_timestamps, genvars, setup_pc, init_time, now,
                   x_pos, do_PVT, PVT_start, PVT_event_count,
                   current_modifier, event_queue, event_data, db_last,
                   db_outcomes, rendered, calls>>

Next ==
    \/ GenSample
    \/ GenBranch
    \/ GenPadTest
    \/ GenPadBody
    \/ GenTrim
    \/ GenInstall
    \/ refresh
    \/ get_last_entry
    \/ setup

Spec == Init /\ [][Next]_vars

\* A session whose caller has also set poll_while_moving, and has left
\* reset_target_after_poll and poll_at_fixation at their defaults (lines
\* 97-102).
PolicyInit ==
    /\ exp_duration \in 0..MaxDuration
    /\ PVT_ITI \in (1..MaxITI) \X (0..MaxITI)
    /\ reset_target_after_poll = TRUE
    /\ poll_while_moving \in BOOLEAN
    /\ poll_at_fixation = FALSE
    /\ CompTrack_init

PolicySpec == PolicyInit /\ [][Next]_vars

\* generate_PVT_timestamps is straight-line code and loops: once called, it
\* keeps taking steps for as long as it has one to take.
FairSpec == Spec /\ WF_vars(generate_PVT_timestamps)

\* A session as lines 73-76 of experiment.py mean to run it: the schedule is
\* generated, and the frame loop calls refresh again and again for as long as
\* the session lasts.
frame_loop == generate_PVT_timestamps \/ refresh

LoopSpec ==
    /\ Init
    /\ [][frame_loop]_vars
    /\ WF_vars(generate_PVT_timestamps)
    /\ WF_vars(refresh)

\* ------------------------------------------------------------------------
\* Properties
\* ------------------------------------------------------------------------
\* A step of the behaviour is a completed call of refresh
Tick == now' # now /\ err' = "none"

\* A probe is in progress when the response step of the tick runs
ActiveAtResponse == do_PVT \/ PVT_event_count' # PVT_event_count

LowerBound == x_bounds[1] * PosScale
UpperBound == x_bounds[2] * PosScale
Saturate(v) ==
    IF v < LowerBound THEN LowerBound
    ELSE IF v > UpperBound THEN UpperBound ELSE v

\* C1: the cursor position always lies in the closed interval
\* [x_bounds[0], x_bounds[1]]; on every tick that integrates, the stored
\* position is the raw sum pinned to the lower bound when below it, pinned to
\* the upper bound when above it, and unchanged when inside.
C1_PositionSaturates ==
    /\ [](LowerBound <= x_pos /\ x_pos <= UpperBound)
    /\ [][(Tick /\ ~do_PVT') =>
            LET base == IF event_data'.PVT_RT # NA /\ reset_target_after_poll
                        THEN screen_c ELSE x_pos
                raw == base + event_data'.total_force
                            + event_data'.user_input * PosScale
            IN x_pos' = Saturate(raw)]_vars

\* A step of +BigStep pixels has been pinned to the upper bound.
C1_Witness ==
    /\ db_last.exists
    /\ ~do_PVT
    /\ event_data.user_input = BigStep
    /\ x_pos = UpperBound

\* C2: a tick that begins with a probe in progress starts no probe: the
\* schedule check leaves PVT_start and PVT_event_count alone, even when later
\* scheduled onsets have been reached.
C2_NoStartWhileProbing ==
    [][do_PVT => (PVT_event_count' = PVT_event_count
                  /\ PVT_start' = PVT_start)]_vars

\* A tick that began after the probe's onset has passed the next scheduled
\* onset, and the probe is still the only one.
C2_Witness ==
    /\ do_PVT
    /\ PVT_event_count < Len(PVT_timestamps.val)
    /\ event_data.timestamp + init_time > PVT_start
    /\ event_data.timestamp
         >= PVT_timestamps.val[PVT_event_count + 1] * TimeScale

\* C3: a tick records TIMEOUT exactly when a probe is in progress and at
\* least one second has elapsed since its onset; the probe is idle again on
\* that tick. A tick inside the window that carries a space key-down ends the
\* probe with a numeric outcome, so a probe still in progress has seen no
\* qualifying key.
C3_TimeoutIff ==
    /\ [][Tick =>
            LET elapsed == now' - PVT_start'
            IN /\ (event_data'.PVT_RT = TIMEOUT)
                    <=> (ActiveAtResponse /\ elapsed >= OneSecond)
               /\ (event_data'.PVT_RT = TIMEOUT) => ~do_PVT'
               /\ (ActiveAtResponse /\ elapsed < OneSecond
                     /\ event_queue'.space)
                    => (~do_PVT' /\ event_data'.PVT_RT.kind = "RT")]_vars
    /\ [](do_PVT => (~event_queue.space /\ now - PVT_start < OneSecond))

\* A probe that began on an earlier tick has timed out on the tick at which
\* exactly one second had elapsed, with no key in the batch.
C3_Witness ==
    /\ event_data.PVT_RT = TIMEOUT
    /\ ~do_PVT
    /\ ~event_queue.space
    /\ now - PVT_start = OneSecond
    /\ event_data.timestamp + init_time > PVT_start

\* C4: a numeric reaction time lies in [0, 1.0) seconds and is the clock time
\* between the probe's recorded onset and the response step of the tick whose
\* batch held the space key-down.
C4_NumericRT ==
    event_data.PVT_RT.kind = "RT" =>
        /\ 0 <= event_data.PVT_RT.rt
        /\ event_data.PVT_RT.rt < OneSecond
        /\ event_data.PVT_RT.rt = now - PVT_start
        /\ event_queue.space

\* A response on a tick later than the onset tick, with a non-zero time.
C4_Witness ==
    /\ event_data.PVT_RT.kind = "RT"
    /\ event_data.PVT_RT.rt > 0
    /\ event_data.timestamp + init_time > PVT_start

\* C5: every probe that has ended has exactly one frame record with an
\* outcome: a tick records PVT_RT other than 'NA' exactly when it ends a
\* probe, and the rows with an outcome number the probes that have ended.
C5_OneOutcomePerProbe ==
    /\ [](db_outcomes + (IF do_PVT THEN 1 ELSE 0) = PVT_event_count)
    /\ [](db_last.exists => db_last.PVT_RT = event_data.PVT_RT)
    /\ [][Tick => ((event_data'.PVT_RT # NA)
                     <=> (ActiveAtResponse /\ ~do_PVT'))]_vars

\* Two probes have ended, one by response and one by timeout or both alike,
\* and a later idle tick has recorded 'NA'.
C5_Witness ==
    /\ PVT_event_count = 2
    /\ db_outcomes = 2
    /\ ~do_PVT
    /\ db_last.exists
    /\ db_last.PVT_RT = NA

NonDecreasing(s) == \A i \in 1..(Len(s) - 1) : s[i] <= s[i + 1]
LastOnset(s) == IF s = <<>> THEN 0 ELSE s[Len(s)]
Distance(a, b) == IF a >= b THEN a - b ELSE b - a

\* C6: for 0 < lo <= hi, an installed schedule is non-decreasing and its final
\* onset is within hi of exp_duration.
C6_ScheduleNearDuration ==
    (PVT_timestamps.set /\ 0 < PVT_ITI[1] /\ PVT_ITI[1] <= PVT_ITI[2]) =>
        /\ NonDecreasing(PVT_timestamps.val)
        /\ Distance(LastOnset(PVT_timestamps.val), exp_duration) <= PVT_ITI[2]

\* C7: for lo <= exp_duration, an installed schedule has at least one and at
\* most exp_duration / lo onsets, none later than exp_duration.
C7_OnsetsWithinDuration ==
    (PVT_timestamps.set /\ PVT_ITI[1] <= PVT_ITI[2]
       /\ PVT_ITI[1] <= exp_duration) =>
        /\ Len(PVT_timestamps.val) >= 1
        /\ Len(PVT_timestamps.val) * PVT_ITI[1] <= exp_duration
        /\ \A i \in 1..Len(PVT_timestamps.val) :
              PVT_timestamps.val[i] <= exp_duration

\* C8: with exp_duration below the minimum interval, generation, once it has
\* drawn its sample, completes and installs a schedule; and with an empty
\* schedule installed no refresh ever starts a probe.
C8_ShortSessionCompletes ==
    /\ (gen_pc = "sampled" /\ exp_duration < PVT_ITI[1]) ~> (gen_pc = "done")
    /\ []((PVT_timestamps.set /\ PVT_timestamps.val = <<>>)
            => (~do_PVT /\ PVT_event_count = 0))

\* C9: bounds incompatible with the duration (the minimum interval exceeds
\* it) make the call end in an error with no schedule installed, and no other
\* configuration makes it end in an error.
C9_IncompatibleFailsFast ==
    /\ (gen_pc # "idle" /\ exp_duration < PVT_ITI[1])
          => (gen_pc = "raised" /\ ~PVT_timestamps.set)
    /\ gen_pc = "raised" => exp_duration < PVT_ITI[1]

\* C10: once the driver's setup has run, the schedule has been generated;
\* refresh never finds PVT_timestamps unset; and a refresh changes neither the
\* schedule nor any other session parameter.
C10_GeneratedOnceBeforeLoop ==
    /\ [](setup_pc # "start" => PVT_timestamps.set)
    /\ [](err # "TypeError")
    /\ [][now' # now => UNCHANGED <<params, PVT_timestamps>>]_vars

\* C11: on a tick that captures input, the user input recorded and applied is
\* the sum of the horizontal deltas of all pointer-motion events of the
\* tick's batch, 0 when there are none.
C11_InputIsSumOfDeltas ==
    (db_last.exists /\ ~do_PVT) =>
        /\ event_data.user_input = SumSeq(event_queue.motion)
        /\ db_last.user_input = SumSeq(event_queue.motion)

\* C12: the persisted row's PVT_event field is true on every tick during which
\* a probe is active, from the onset tick to the tick on which the probe ends,
\* and false on every tick with no probe.
C12_ProbeActiveFlag ==
    db_last.exists =>
        (db_last.PVT_event <=> (do_PVT \/ db_last.PVT_RT # NA))

\* C13: current_modifier advances by exactly one on every refresh tick,
\* whichever branch the tick takes, wrapping to 0 after the last element of
\* additional_force, and stays in [0, len(additional_force) - 1].
C13_ModifierAdvances ==
    /\ [](current_modifier \in 0..(ModifierCount - 1))
    /\ [][Tick => current_modifier'
                    = additional_buffeting_force(current_modifier)]_vars

\* C14: on a tick where a probe ends, by response or by timeout, with
\* reset_target_after_poll set, the response step puts the cursor at the
\* screen centre, so the tick integrates from the centre; with it unset the
\* tick integrates from the position the probe began with, which no tick of
\* the probe has changed.
C14_ResetOnProbeEnd ==
    /\ [][(Tick /\ event_data'.PVT_RT # NA) =>
            LET step == event_data'.total_force
                          + event_data'.user_input * PosScale
            IN IF reset_target_after_poll
               THEN x_pos' = Saturate(screen_c + step)
               ELSE x_pos' = Saturate(x_pos + step)]_vars
    /\ [][(Tick /\ do_PVT') => x_pos' = x_pos]_vars

\* A second probe has timed out with the reset configured and no pointer
\* motion in the batch: the cursor is one force step from the centre.
C14_Witness ==
    /\ reset_target_after_poll
    /\ PVT_event_count = 2
    /\ event_data.PVT_RT = TIMEOUT
    /\ event_data.user_input = 0
    /\ x_pos = screen_c + event_data.total_force
    /\ db_last.target_position = x_pos

\* The polling policy lets probes occur: at least one of the two modes of
\* polling is switched on.
PolicyPermits == poll_while_moving \/ poll_at_fixation

\* C15: a tick that begins idle starts a probe exactly when scheduled onsets
\* remain, the tick's elapsed time has reached the next one and the polling
\* policy permits probes; no probe starts before its scheduled onset.
C15_StartIffDueAndPermitted ==
    [][(Tick /\ ~do_PVT) =>
         LET due == /\ PVT_event_count < Len(PVT_timestamps.val)
                    /\ event_data'.timestamp
                         >= PVT_timestamps.val[PVT_event_count + 1] * TimeScale
         IN /\ (PVT_event_count' = PVT_event_count + 1)
                  <=> (due /\ PolicyPermits)
            /\ (PVT_event_count' # PVT_event_count) => due]_vars

\* C16: the index PVT_event_count changes only by an Idle -> Probing
\* transition, which advances it by exactly one, records the probe's start
\* time and sets do_PVT; the probe started is the one whose onset the index
\* pointed at, and that onset has been reached. Hence the index stays within
\* 0..len(PVT_timestamps) and counts the probes started.
C16_IndexCountsStarts ==
    /\ [](0 <= PVT_event_count /\ PVT_event_count <= Len(PVT_timestamps.val))
    /\ [](PVT_event_count = 0 <=> PVT_start = NoStart)
    /\ [][PVT_event_count' = PVT_event_count
            => PVT_start' = PVT_start]_vars
    /\ [][PVT_event_count' # PVT_event_count =>
            /\ Tick
            /\ ~do_PVT
            /\ PVT_event_count' = PVT_event_count + 1
            /\ event_data'.timestamp
                 >= PVT_timestamps.val[PVT_event_count'] * TimeScale
            /\ PVT_start' >= init_time + event_data'.timestamp
            /\ PVT_start' <= now'
            /\ (do_PVT' \/ event_data'.PVT_RT # NA)]_vars

\* The third of three scheduled onsets has started its probe.
C16_Witness ==
    /\ Len(PVT_timestamps.val) = 3
    /\ PVT_event_count = 3
    /\ do_PVT
    /\ PVT_start >= init_time + PVT_timestamps.val[3] * TimeScale

\* C17: every completed refresh, whether idle, starting a probe, inside one or
\* ending one, makes exactly one db.insert, before its render request; the
\* row is the tick's frame record with the position as integrated, and the
\* render request sees do_PVT and the position as the tick leaves them. No
\* other step writes a row or draws.
C17_OneRowThenRender ==
    /\ [][Tick =>
            /\ Cardinality({i \in DOMAIN calls' : calls'[i] = "db.insert"}) = 1
            /\ \E i, j \in DOMAIN calls' :
                  i < j /\ calls'[i] = "db.insert" /\ calls'[j] = "flip"
            /\ db_last'.exists
            /\ db_last'.PVT_RT = event_data'.PVT_RT
            /\ db_last'.user_input = event_data'.user_input
            /\ db_last'.total_force = event_data'.total_force
            /\ db_last'.target_position = x_pos'
            /\ rendered' = [probe |-> do_PVT', pos |-> x_pos']]_vars
    /\ [][now' = now => UNCHANGED <<db_last, db_outcomes, rendered>>]_vars

\* A tick inside a probe, later than its onset tick, has written its row and
\* drawn the probe.
C17_Witness ==
    /\ do_PVT
    /\ event_data.timestamp + init_time > PVT_start
    /\ calls = <<"db.insert", "flip">>
    /\ db_last.exists
    /\ rendered.probe

\* C18: a refresh whose batch holds no space key-down and no pointer-motion
\* event completes without error; it records user_input 0 and no response
\* (PVT_RT is 'NA', or TIMEOUT when a probe is in progress and its second has
\* elapsed), and a tick that leaves no probe in progress moves the cursor by
\* its total_force only.
C18_EmptyBatchIsNoOp ==
    [][(now' # now /\ PVT_timestamps.set
          /\ ~event_queue'.space /\ event_queue'.motion = <<>>) =>
         /\ err' = "none"
         /\ event_data'.user_input = 0
         /\ event_data'.PVT_RT \in {NA, TIMEOUT}
         /\ (event_data'.PVT_RT = TIMEOUT)
              => (ActiveAtResponse /\ now' - PVT_start' >= OneSecond)
         /\ ~do_PVT' =>
              LET base == IF event_data'.PVT_RT # NA /\ reset_target_after_poll
                          THEN screen_c ELSE x_pos
              IN x_pos' = Saturate(base + event_data'.total_force)]_vars

\* An idle tick with an empty batch, before any probe, has moved the cursor
\* from the centre by its force.
C18_Witness ==
    /\ db_last.exists
    /\ event_queue = [space |-> FALSE, motion |-> <<>>]
    /\ PVT_event_count = 0
    /\ event_data.PVT_RT = NA
    /\ event_data.user_input = 0
    /\ event_data.total_force # 0
    /\ x_pos = screen_c + event_data.total_force

\* C19: a get_last_entry call made while no row has been persisted, whether
\* the query yields no row or a row with no value, returns 0, raises nothing
\* and changes no state of the object or of its collaborators.
C19_DefaultWhenNoRecord ==
    /\ [][(last_entry' # last_entry /\ now' = now /\ ~db_last.exists) =>
            /\ last_entry' = [status |-> "returned", value |-> 0]
            /\ err' = "none"
            /\ UNCHANGED <<params, PVT_timestamps, genvars, setup_pc,
                           init_time, now, x_pos, do_PVT, PVT_start,
                           PVT_event_count, current_modifier, event_queue,
                           event_data, db_last, db_outcomes, rendered,
                           calls>>]_vars
    /\ [](~db_last.exists =>
            (last_entry.status \in {"none", "returned"}
               /\ last_entry.value = 0))

\* The call has been made on the empty table, after the schedule was
\* generated, and has returned 0.
C19_Witness ==
    /\ ~db_last.exists
    /\ PVT_timestamps.set
    /\ last_entry = [status |-> "returned", value |-> 0]
    /\ err = "none"

\* C20: input is captured and the position integrated on exactly the ticks
\* whose response step leaves no probe in progress, the tick that ends a probe
\* included; on a tick that leaves a probe in progress the position is left
\* alone, user_input is recorded as 0 whatever pointer motion the batch holds,
\* and the disturbance force is computed and recorded all the same.
C20_TrackingGatedOnProbe ==
    [][Tick =>
         /\ event_data'.buffeting_force \in buffeting_force
         /\ event_data'.total_force = event_data'.buffeting_force
         /\ db_last'.total_force = event_data'.total_force
         /\ db_last'.user_input = event_data'.user_input
         /\ IF do_PVT'
            THEN /\ x_pos' = x_pos
                 /\ event_data'.user_input = 0
            ELSE LET m == event_queue'.motion
                     base == IF event_data'.PVT_RT # NA
                                  /\ reset_target_after_poll
                             THEN screen_c ELSE x_pos
                 IN /\ event_data'.user_input
                         = (IF m = <<>> THEN 0 ELSE m[Len(m)])
                    /\ x_pos' = Saturate(base + event_data'.total_force
                                           + event_data'.user_input * PosScale)
      ]_vars

\* A tick inside a probe whose batch held pointer motion: the motion has been
\* discarded and the force recorded.
C20_Witness ==
    /\ do_PVT
    /\ event_queue.motion # <<>>
    /\ event_data.user_input = 0
    /\ db_last.exists
    /\ db_last.user_input = 0
    /\ db_last.total_force # 0
    /\ x_pos # screen_c

\* C21: for every exp_duration >= 0 and bounds 1 <= lo <= hi, a call of
\* generate_PVT_timestamps terminates whatever intervals are drawn: once the
\* sample is drawn, the padding loop or the trimming loop is left and the
\* schedule installed.
C21_GenerationTerminates ==
    (gen_pc = "sampled" /\ 1 <= PVT_ITI[1] /\ PVT_ITI[1] <= PVT_ITI[2])
        ~> (gen_pc = "done")

C23_SameTickStartAndResponse ==
    /\ [][(Tick /\ ~do_PVT /\ PVT_event_count' = PVT_event_count + 1
             /\ event_queue'.space) =>
            LET m == event_queue'.motion
                base == IF reset_target_after_poll THEN screen_c ELSE x_pos
            IN /\ ~do_PVT'
               /\ event_data'.PVT_RT.kind = "RT"
               /\ event_data'.PVT_RT.rt = now' - PVT_start'
               /\ event_data'.PVT_RT.rt <= MaxJitter
               /\ ~rendered'.probe
               /\ event_data'.user_input = (IF m = <<>> THEN 0 ELSE m[Len(m)])
               /\ x_pos' = Saturate(base + event_data'.total_force
                                      + event_data'.user_input * PosScale)
         ]_vars
    /\ [][(Tick /\ do_PVT) => PVT_event_count' = PVT_event_count]_vars
    /\ [][(Tick /\ event_data'.PVT_RT # NA) =>
            /\ ~do_PVT'
            /\ ~rendered'.probe
            /\ calls' = <<"db.insert", "flip">>
            /\ db_last'.target_position = x_pos']_vars

\* A probe has started and been answered on one tick, whose batch also moved
\* the pointer: the row holds the RT and the input, and the cursor was drawn.
C23_Witness ==
    /\ event_data.PVT_RT.kind = "RT"
    /\ PVT_start >= init_time + event_data.timestamp
    /\ event_data.PVT_RT.rt = now - PVT_start
    /\ event_data.user_input = BigStep
    /\ ~do_PVT
    /\ ~rendered.probe

====
